---- MODULE Spec2Model ----
(***************************************************************************)
(* Model of the two containers of the repository:                          *)
(*   - MaxHeap<K,V>  (src/Sorting_by_frequency.cpp, also the bare-value    *)
(*     MaxHeap<T> of src/D-ary_heap.cpp, which has the same hDown / hUp /   *)
(*     insert / build),                                                     *)
(*   - UnorderedMap<Key,Value> (src/Sorting_by_frequency.cpp).              *)
(* C++ indices are 0-based; TLA+ sequences are 1-based, so slot i of the   *)
(* code is h[i+1] here.                                                     *)
(***************************************************************************)
EXTENDS Integers, Sequences, FiniteSets, Bags, TLC

VARIABLES
    heap,        \* MaxHeap::heap, the slot vector of KVNode
    d,           \* MaxHeap::d, the arity, fixed at construction
    hstatus,     \* "ok", or "undefined" once a call had undefined behaviour
    hop,         \* name of the last heap operation that ran
    ret,         \* <<v>> if the last call returned the value v, <<>> if none
    sorted,      \* vector returned by the last heapSort
    wasEmpty,    \* TRUE iff the heap was empty when the last operation was called
    built,       \* the entries given to build, as a bag (history)
    drain,       \* the root entries removed by extractMax since build (history)
    buckets,     \* UnorderedMap::buckets
    numElements, \* UnorderedMap::numElements
    mop,         \* name of the last map operation that ran
    findKey,     \* key argument of the last find
    ref,         \* reference key -> value function (history)
    found,       \* result of the last find (value or NotFound) / erase (TRUE or FALSE)
    hit,         \* TRUE iff the key was in the reference function before the last call
    grew,        \* TRUE iff the last call changed the bucket capacity
    initCap,     \* bucketCount given to the constructor (history)
    onlyFresh,   \* TRUE while every map call so far was insert of a new key
    sift,        \* the sift in progress on heap: which routine, at which index
    cmp,         \* build + heapSort of one input under two arities
    pipe         \* main() of Sorting_by_frequency.cpp: its input and its output

heapVars == <<heap, d, hstatus, hop, ret, sorted, wasEmpty, built, drain>>
histVars == <<built, drain>>
mapVars  == <<buckets, numElements, mop, findKey, ref, found, hit, grew, initCap, onlyFresh>>
runVars  == <<sift, cmp, pipe>>
vars     == <<heap, d, hstatus, hop, ret, sorted, wasEmpty, built, drain,
              buckets, numElements, mop, findKey, ref, found, hit, grew, initCap, onlyFresh,
              sift, cmp, pipe>>

(***************************************************************************)
(* Bounds of the model.                                                    *)
(***************************************************************************)
MaxKey == 3      \* heap keys are 1..MaxKey
MaxVal == 2      \* heap values are 1..MaxVal
MaxLen == 4      \* longest slot vector
MaxD   == 3      \* arities 1..MaxD
MaxMapKey  == 3  \* map keys are 0..MaxMapKey
MaxBuckets == 4  \* bucketCount given to the constructor is 1..MaxBuckets

Keys    == 1..MaxKey
Vals    == 1..MaxVal
Arities == 1..MaxD

MKeys    == 0..MaxMapKey
\* The map copies values and never compares or computes with them: Value() = 0
\* and one other value are enough to tell a write from the value it replaces
MVals    == {0, 1}
NotFound == -1
DefaultBuckets == 16

\* KVNode<K,V>
KVNode == [key : Keys, value : Vals]

Range(s) == {s[i] : i \in DOMAIN s}
BagOf(s) == [e \in Range(s) |-> Cardinality({i \in DOMAIN s : s[i] = e})]

RECURSIVE SeqsUpTo(_, _)
SeqsUpTo(S, n) ==
    IF n = 0 THEN {<<>>}
    ELSE LET shorter == SeqsUpTo(S, n - 1)
         IN  shorter \cup {Append(s, x) : s \in {t \in shorter : Len(t) = n - 1}, x \in S}

(***************************************************************************)
(* C++ arithmetic.                                                         *)
(***************************************************************************)
INT_MAX == 2147483647

\* int / int truncates toward zero (b > 0)
CDiv(a, b) == IF a >= 0 THEN a \div b ELSE -((-a) \div b)

Limb == 65536

\* (size_t)(0 - 1) / ar narrowed to int: 2^64 - 1 is four 16-bit limbs of
\* 65535; long division by ar, then the low 32 bits read as two's complement.
EmptyStart(ar) ==
    LET top == Limb - 1
        r1  == top % ar
        c2  == r1 * Limb + top
        r2  == c2 % ar
        c3  == r2 * Limb + top
        q3  == (c3 \div ar) % Limb
        r3  == c3 % ar
        c4  == r3 * Limb + top
        q4  == (c4 \div ar) % Limb
    IN  IF q3 >= Limb \div 2 THEN (q3 - Limb) * Limb + q4 ELSE q3 * Limb + q4

\* int start = (heap.size() - 1) / d;
BuildStart(n, ar) == IF n = 0 THEN EmptyStart(ar) ELSE (n - 1) \div ar

\* d * ind + i leaves the int range for some i in 1..d
ChildOverflows(ind, ar) == ind >= 0 /\ ind > (INT_MAX - ar) \div ar

(***************************************************************************)
(* MaxHeap: private helpers.  h is the slot vector, ar the arity.          *)
(***************************************************************************)
\* a swap without the temporary: a = b; b = a;
swapNodes_noTemp(h, a, b) == [h EXCEPT ![a + 1] = h[b + 1]]

\* KVNode<K, V> temp = a; a = b; b = temp;
swapNodes(h, a, b) == [h EXCEPT ![a + 1] = h[b + 1], ![b + 1] = h[a + 1]]

\* the child loop with >= in place of >: among equal keys the last child wins
RECURSIVE ChildLoop_lastWins(_, _, _, _, _, _)
ChildLoop_lastWins(h, size, ar, ind, i, maxIdx) ==
    IF i > ar THEN maxIdx
    ELSE LET child == ar * ind + i
         IN  ChildLoop_lastWins(h, size, ar, ind, i + 1,
                                IF child < size /\ h[child + 1].key >= h[maxIdx + 1].key
                                THEN child ELSE maxIdx)

\* The child loop of hDown / heapify: for (i = 1; i <= d; i++) { child = d*ind+i;
\* if (child < size && h[child].key > h[maxIdx].key) maxIdx = child; }
RECURSIVE ChildLoop(_, _, _, _, _, _)
ChildLoop(h, size, ar, ind, i, maxIdx) ==
    IF i > ar THEN maxIdx
    ELSE LET child == ar * ind + i
         IN  ChildLoop(h, size, ar, ind, i + 1,
                       IF child < size /\ h[child + 1].key > h[maxIdx + 1].key
                       THEN child ELSE maxIdx)

\* hDown where each child is compared with the node instead of the running maximum
RECURSIVE ChildLoop_vsNode(_, _, _, _, _, _)
ChildLoop_vsNode(h, size, ar, ind, i, maxIdx) ==
    IF i > ar THEN maxIdx
    ELSE LET child == ar * ind + i
         IN  ChildLoop_vsNode(h, size, ar, ind, i + 1,
                              IF child < size /\ h[child + 1].key > h[ind + 1].key
                              THEN child ELSE maxIdx)

RECURSIVE hDown_vsNode(_, _, _)
hDown_vsNode(h, ind, ar) ==
    LET maxIdx == ChildLoop_vsNode(h, Len(h), ar, ind, 1, ind)
    IN  IF maxIdx # ind THEN hDown_vsNode(swapNodes(h, ind, maxIdx), maxIdx, ar) ELSE h

RECURSIVE hDown(_, _, _)
hDown(h, ind, ar) ==
    LET maxIdx == ChildLoop(h, Len(h), ar, ind, 1, ind)
    IN  IF maxIdx # ind THEN hDown(swapNodes(h, ind, maxIdx), maxIdx, ar) ELSE h

\* hUp that swaps with the parent once and does not continue upward
hUp_once(h, ind, ar) ==
    IF ind = 0 THEN h
    ELSE LET parent == CDiv(ind - 1, ar)
         IN  IF h[ind + 1].key > h[parent + 1].key THEN swapNodes(h, ind, parent) ELSE h

RECURSIVE hUp(_, _, _)
hUp(h, ind, ar) ==
    IF ind = 0 THEN h
    ELSE LET parent == CDiv(ind - 1, ar)
         IN  IF h[ind + 1].key > h[parent + 1].key
             THEN hUp(swapNodes(h, ind, parent), parent, ar)
             ELSE h

\* heapify where each child is compared with the node instead of the running maximum
RECURSIVE heapify_vsNode(_, _, _, _)
heapify_vsNode(arr, i, heapSize, ar) ==
    LET largest == ChildLoop_vsNode(arr, heapSize, ar, i, 1, i)
    IN  IF largest # i THEN heapify_vsNode(swapNodes(arr, i, largest), largest, heapSize, ar)
        ELSE arr

RECURSIVE heapify(_, _, _, _)
heapify(arr, i, heapSize, ar) ==
    LET largest == ChildLoop(arr, heapSize, ar, i, 1, i)
    IN  IF largest # i THEN heapify(swapNodes(arr, i, largest), largest, heapSize, ar)
        ELSE arr

(***************************************************************************)
(* MaxHeap: public operations as functions of the slot vector.             *)
(***************************************************************************)
MaxHeap_insert(h, value, ar) == hUp(Append(h, value), Len(h), ar)

\* precondition Len(h) > 0
MaxHeap_getMax(h) == h[1].value

\* precondition Len(h) > 0: heap[0] = heap.back(); pop_back(); hDown(0) if not empty
MaxHeap_extractMax(h, ar) ==
    LET moved  == [h EXCEPT ![1] = h[Len(h)]]
        popped == SubSeq(moved, 1, Len(h) - 1)
    IN  IF popped # <<>> THEN hDown(popped, 0, ar) ELSE popped

\* for (int i = start; i >= 0; i--) hDown(i);
RECURSIVE BuildLoop(_, _, _)
BuildLoop(h, i, ar) == IF i < 0 THEN h ELSE BuildLoop(hDown(h, i, ar), i - 1, ar)

\* On an empty vector start is (2^64-1)/d narrowed to int; when that is
\* non-negative the loop still runs start+1 times, but child < heap.size() is
\* child < 0 in size_t, so no hDown reads or moves a slot.
MaxHeap_build(arr, ar) ==
    IF Len(arr) = 0 THEN arr ELSE BuildLoop(arr, BuildStart(Len(arr), ar), ar)

\* build on this input evaluates d*ind+i outside the int range
BuildOverflows(arr, ar) ==
    Len(arr) = 0 /\ ChildOverflows(BuildStart(0, ar), ar)

\* for (int i = (n - 1) / d; i >= 0; i--) heapify(arr, i, n);
RECURSIVE SortBuildLoop(_, _, _, _)
SortBuildLoop(arr, i, n, ar) ==
    IF i < 0 THEN arr ELSE SortBuildLoop(heapify(arr, i, n, ar), i - 1, n, ar)

\* the extraction loop re-sifting a prefix one slot too long (heapify(arr, 0, i + 1))
RECURSIVE SortExtractLoop_longPrefix(_, _, _)
SortExtractLoop_longPrefix(arr, i, ar) ==
    IF i <= 0 THEN arr
    ELSE SortExtractLoop_longPrefix(heapify(swapNodes(arr, 0, i), 0, i + 1, ar), i - 1, ar)

\* for (int i = n - 1; i > 0; i--) { swapNodes(arr[0], arr[i]); heapify(arr, 0, i); }
RECURSIVE SortExtractLoop(_, _, _)
SortExtractLoop(arr, i, ar) ==
    IF i <= 0 THEN arr
    ELSE SortExtractLoop(heapify(swapNodes(arr, 0, i), 0, i, ar), i - 1, ar)

\* the array heapSort ends with, before the values are copied out
SortedNodes(h, ar) ==
    LET n == Len(h)
    IN  SortExtractLoop(SortBuildLoop(h, CDiv(n - 1, ar), n, ar), n - 1, ar)

MaxHeap_heapSort(h, ar) ==
    LET arr == SortedNodes(h, ar) IN [i \in 1..Len(arr) |-> arr[i].value]

(***************************************************************************)
(* MaxHeap: state machine.  A call whose behaviour the language leaves     *)
(* undefined ends in hstatus = "undefined" with every outcome a build can  *)
(* produce; no further call is made on such an object.  The actions leave  *)
(* the history variables built and drain to the specification.             *)
(***************************************************************************)
HeapInit ==
    /\ heap = <<>>
    /\ d \in Arities
    /\ hstatus = "ok"
    /\ hop = "new"
    /\ ret = <<>>
    /\ sorted = <<>>
    /\ wasEmpty = TRUE
    /\ built = EmptyBag
    /\ drain = <<>>

BuildFrom(arr) ==
    /\ heap' = MaxHeap_build(arr, d)
    \* signed overflow of d*ind+i: wraps (and the loop ends) or traps
    /\ hstatus' \in (IF BuildOverflows(arr, d) THEN {"ok", "undefined"} ELSE {"ok"})
    /\ hop' = "build"
    /\ ret' = <<>>
    /\ sorted' = <<>>
    /\ wasEmpty' = (heap = <<>>)
    /\ UNCHANGED d

\* Both main() call build once, on the heap they have just constructed
\* (build discards the previous slots, so its result does not depend on them).
Build ==
    /\ hstatus = "ok"
    /\ hop = "new"
    /\ \E arr \in SeqsUpTo(KVNode, MaxLen) : BuildFrom(arr)

Insert(value) ==
    /\ hstatus = "ok"
    /\ Len(heap) < MaxLen
    /\ heap' = MaxHeap_insert(heap, value, d)
    /\ hop' = "insert"
    /\ ret' = <<>>
    /\ sorted' = <<>>
    /\ wasEmpty' = (heap = <<>>)
    /\ UNCHANGED <<d, hstatus>>

GetMax ==
    /\ hstatus = "ok"
    /\ heap # <<>>
    /\ ret' = <<MaxHeap_getMax(heap)>>
    /\ hop' = "getMax"
    /\ sorted' = <<>>
    /\ wasEmpty' = FALSE
    /\ UNCHANGED <<heap, d, hstatus>>

\* heap[0] of an empty vector: the read faults or yields whatever is there
GetMaxOnEmpty ==
    /\ hstatus = "ok"
    /\ heap = <<>>
    /\ hstatus' = "undefined"
    /\ ret' \in {<<>>} \cup {<<v>> : v \in Vals}
    /\ hop' = "getMax"
    /\ sorted' = <<>>
    /\ wasEmpty' = TRUE
    /\ UNCHANGED <<heap, d>>

ExtractMax ==
    /\ hstatus = "ok"
    /\ heap # <<>>
    /\ ret' = <<heap[1].value>>
    /\ heap' = MaxHeap_extractMax(heap, d)
    /\ hop' = "extractMax"
    /\ sorted' = <<>>
    /\ wasEmpty' = FALSE
    /\ UNCHANGED <<d, hstatus>>

\* heap[0], heap.back() and pop_back() of an empty vector: the call faults, or
\* returns a stray value and leaves a vector whose size has wrapped around
\* (shown here as stray slots).
ExtractMaxOnEmpty ==
    /\ hstatus = "ok"
    /\ heap = <<>>
    /\ hstatus' = "undefined"
    /\ ret' \in {<<>>} \cup {<<v>> : v \in Vals}
    /\ heap' \in SeqsUpTo(KVNode, 1)
    /\ hop' = "extractMax"
    /\ sorted' = <<>>
    /\ wasEmpty' = TRUE
    /\ UNCHANGED d

\* heapSort working on the member vector itself instead of a copy
heapSort_liveHeap_noCopy(h, ar) == SortedNodes(h, ar)

\* vector<KVNode<K, V>> arr = heap; every later line of heapSort writes arr only
heapSort_liveHeap(h, ar) == h

HeapSort ==
    /\ hstatus = "ok"
    /\ sorted' = MaxHeap_heapSort(heap, d)
    /\ heap' = heapSort_liveHeap(heap, d)
    /\ hop' = "heapSort"
    /\ ret' = <<>>
    /\ wasEmpty' = (heap = <<>>)
    /\ UNCHANGED <<d, hstatus>>

(***************************************************************************)
(* UnorderedMap.  b is the bucket vector, n the element counter.           *)
(***************************************************************************)
HashMulHi == 40503      \* 2654435761 = 40503 * 65536 + 31153
HashMulLo == 31153

\* hashFunc(key) % size for an int key >= 0: key * 2654435761 stays below
\* 2^64, so the size_t product does not wrap and the remainder can be taken
\* factor by factor.
HashMod(key, size) ==
    ((key % size) * (((HashMulHi % size) * (Limb % size) + HashMulLo) % size)) % size

RECURSIVE Flatten(_, _)
\* the nodes of buckets i..Len(b), bucket by bucket, chain order within a bucket
Flatten(b, i) == IF i > Len(b) THEN <<>> ELSE b[i] \o Flatten(b, i + 1)

KeepIndex(nodes, size, index) ==
    SelectSeq(nodes, LAMBDA node : HashMod(node.key, size) = index)

\* rehash that takes the new index modulo the old bucket count
rehash_oldCount(b) ==
    LET newBucketCount == Len(b) * 2
    IN  [j \in 1..newBucketCount |-> KeepIndex(Flatten(b, 1), Len(b), j - 1)]

rehash(b) ==
    LET newBucketCount == Len(b) * 2
    IN  [j \in 1..newBucketCount |-> KeepIndex(Flatten(b, 1), newBucketCount, j - 1)]

\* position of the first node of the chain holding key, 0 if none
Position(bucket, key) ==
    IF \E p \in 1..Len(bucket) : bucket[p].key = key
    THEN CHOOSE p \in 1..Len(bucket) :
             /\ bucket[p].key = key
             /\ \A q \in 1..(p - 1) : bucket[q].key # key
    ELSE 0

\* numElements > buckets.size() * loadFactor, loadFactor = 0.75f
OverLoad(b, n) == 4 * n > 3 * Len(b)

\* insert that counts an overwrite as a new element
UnorderedMap_insert_countsAll(b, n, key, value) ==
    LET b1    == IF OverLoad(b, n) THEN rehash(b) ELSE b
        index == HashMod(key, Len(b1)) + 1
        pos   == Position(b1[index], key)
    IN  IF pos # 0
        THEN [buckets |-> [b1 EXCEPT ![index][pos].value = value], numElements |-> n + 1]
        ELSE [buckets |-> [b1 EXCEPT ![index] = Append(@, [key |-> key, value |-> value])],
              numElements |-> n + 1]

\* insert that looks for the key in the first node of the chain only
UnorderedMap_insert_firstNode(b, n, key, value) ==
    LET b1    == IF OverLoad(b, n) THEN rehash(b) ELSE b
        index == HashMod(key, Len(b1)) + 1
        pos   == IF b1[index] # <<>> /\ b1[index][1].key = key THEN 1 ELSE 0
    IN  IF pos # 0
        THEN [buckets |-> [b1 EXCEPT ![index][pos].value = value], numElements |-> n]
        ELSE [buckets |-> [b1 EXCEPT ![index] = Append(@, [key |-> key, value |-> value])],
              numElements |-> n + 1]

UnorderedMap_insert(b, n, key, value) ==
    LET b1    == IF OverLoad(b, n) THEN rehash(b) ELSE b
        index == HashMod(key, Len(b1)) + 1
        pos   == Position(b1[index], key)
    IN  IF pos # 0
        THEN [buckets |-> [b1 EXCEPT ![index][pos].value = value], numElements |-> n]
        ELSE [buckets |-> [b1 EXCEPT ![index] = Append(@, [key |-> key, value |-> value])],
              numElements |-> n + 1]

\* erase that unlinks the node and forgets numElements--
UnorderedMap_erase_keepsCount(b, n, key) ==
    LET index  == HashMod(key, Len(b)) + 1
        bucket == b[index]
        pos    == Position(bucket, key)
    IN  IF pos # 0
        THEN [buckets |-> [b EXCEPT ![index] =
                               SubSeq(bucket, 1, pos - 1) \o SubSeq(bucket, pos + 1, Len(bucket))],
              numElements |-> n, result |-> TRUE]
        ELSE [buckets |-> b, numElements |-> n, result |-> FALSE]

UnorderedMap_erase(b, n, key) ==
    LET index  == HashMod(key, Len(b)) + 1
        bucket == b[index]
        pos    == Position(bucket, key)
    IN  IF pos # 0
        THEN [buckets |-> [b EXCEPT ![index] =
                               SubSeq(bucket, 1, pos - 1) \o SubSeq(bucket, pos + 1, Len(bucket))],
              numElements |-> n - 1, result |-> TRUE]
        ELSE [buckets |-> b, numElements |-> n, result |-> FALSE]

UnorderedMap_find(b, key) ==
    LET index == HashMod(key, Len(b)) + 1
        pos   == Position(b[index], key)
    IN  IF pos # 0 THEN b[index][pos].value ELSE NotFound

\* operator[] that keeps the index computed before the rehash
UnorderedMap_index_staleIndex(b, n, key) ==
    LET index == HashMod(key, Len(b)) + 1
        pos   == Position(b[index], key)
    IN  IF pos # 0
        THEN [buckets |-> b, numElements |-> n, bucket |-> index, pos |-> pos]
        ELSE LET b1 == IF OverLoad(b, n) THEN rehash(b) ELSE b
             IN  [buckets |-> [b1 EXCEPT ![index] = Append(@, [key |-> key, value |-> 0])],
                  numElements |-> n + 1, bucket |-> index, pos |-> Len(b1[index]) + 1]

\* operator[]: bucket and pos locate the node the returned reference points to
UnorderedMap_index(b, n, key) ==
    LET index == HashMod(key, Len(b)) + 1
        pos   == Position(b[index], key)
    IN  IF pos # 0
        THEN [buckets |-> b, numElements |-> n, bucket |-> index, pos |-> pos]
        ELSE LET b1     == IF OverLoad(b, n) THEN rehash(b) ELSE b
                 index1 == IF OverLoad(b, n) THEN HashMod(key, Len(b1)) + 1 ELSE index
             IN  [buckets |-> [b1 EXCEPT ![index1] = Append(@, [key |-> key, value |-> 0])],
                  numElements |-> n + 1, bucket |-> index1, pos |-> Len(b1[index1]) + 1]

\* vector<KVNode> getEntries()
UnorderedMap_getEntries(b) == Flatten(b, 1)

(***************************************************************************)
(* UnorderedMap: state machine.                                            *)
(***************************************************************************)
MapInit ==
    /\ \E bucketCount \in 1..MaxBuckets :
          /\ buckets = [i \in 1..bucketCount |-> <<>>]
          /\ initCap = bucketCount
    /\ numElements = 0
    /\ mop = "new"
    /\ findKey = 0
    /\ ref = [k \in MKeys |-> NotFound]
    /\ found = NotFound
    /\ hit = FALSE
    /\ grew = FALSE
    /\ onlyFresh = TRUE

MapInsert(key, value) ==
    LET r == UnorderedMap_insert(buckets, numElements, key, value)
    IN  /\ buckets' = r.buckets
        /\ numElements' = r.numElements
        /\ mop' = "insert"
        /\ findKey' = 0
        /\ ref' = [ref EXCEPT ![key] = value]
        /\ found' = NotFound
        /\ hit' = (ref[key] # NotFound)
        /\ grew' = (Len(r.buckets) # Len(buckets))
        /\ onlyFresh' = (onlyFresh /\ ref[key] = NotFound)
        /\ UNCHANGED initCap

MapErase(key) ==
    LET r == UnorderedMap_erase(buckets, numElements, key)
    IN  /\ buckets' = r.buckets
        /\ numElements' = r.numElements
        /\ mop' = "erase"
        /\ findKey' = 0
        /\ ref' = [ref EXCEPT ![key] = NotFound]
        /\ found' = r.result
        /\ hit' = (ref[key] # NotFound)
        /\ grew' = (Len(r.buckets) # Len(buckets))
        /\ onlyFresh' = FALSE
        /\ UNCHANGED initCap

MapFind(key) ==
    /\ found' = UnorderedMap_find(buckets, key)
    /\ mop' = "find"
    /\ findKey' = key
    /\ hit' = (ref[key] # NotFound)
    /\ grew' = FALSE
    /\ onlyFresh' = FALSE
    /\ UNCHANGED <<buckets, numElements, ref, initCap>>

\* mp[key] (write = NotFound: the reference is only read) or mp[key] = write
MapIndex(key, write) ==
    LET r == UnorderedMap_index(buckets, numElements, key)
    IN  /\ buckets' = IF write = NotFound THEN r.buckets
                      ELSE [r.buckets EXCEPT ![r.bucket][r.pos].value = write]
        /\ numElements' = r.numElements
        /\ mop' = "index"
        /\ findKey' = 0
        /\ ref' = [ref EXCEPT ![key] = IF write # NotFound THEN write
                                       ELSE IF @ = NotFound THEN 0 ELSE @]
        /\ found' = NotFound
        /\ hit' = (ref[key] # NotFound)
        /\ grew' = (Len(r.buckets) # Len(buckets))
        /\ onlyFresh' = FALSE
        /\ UNCHANGED initCap

(***************************************************************************)
(* Specifications: one per container (the two are never aliased; the      *)
(* other container stays as constructed by default).                       *)
(***************************************************************************)
HeapIdle ==
    /\ heap = <<>> /\ d = 2 /\ hstatus = "ok" /\ hop = "new" /\ ret = <<>>
    /\ sorted = <<>> /\ wasEmpty = TRUE /\ built = EmptyBag /\ drain = <<>>

MapIdle ==
    /\ buckets = [i \in 1..DefaultBuckets |-> <<>>] /\ numElements = 0
    /\ mop = "new" /\ findKey = 0 /\ ref = [k \in MKeys |-> NotFound]
    /\ found = NotFound /\ hit = FALSE /\ grew = FALSE
    /\ initCap = DefaultBuckets /\ onlyFresh = TRUE

\* no sift is being followed, no comparison and no main() is running
RunIdle ==
    /\ sift = [mode |-> "none", ind |-> 0, size |-> 0, calls |-> 0, done |-> TRUE]
    /\ cmp = <<>>
    /\ pipe = <<>>

\* SpecHeap: any calls on one heap
InitHeap == HeapInit /\ MapIdle /\ RunIdle

NextHeap ==
    \/ Build /\ UNCHANGED histVars /\ UNCHANGED mapVars /\ UNCHANGED runVars
    \/ \E value \in KVNode : Insert(value) /\ UNCHANGED histVars /\ UNCHANGED mapVars /\ UNCHANGED runVars
    \/ GetMax /\ UNCHANGED histVars /\ UNCHANGED mapVars /\ UNCHANGED runVars
    \/ GetMaxOnEmpty /\ UNCHANGED histVars /\ UNCHANGED mapVars /\ UNCHANGED runVars
    \/ ExtractMax /\ UNCHANGED histVars /\ UNCHANGED mapVars /\ UNCHANGED runVars
    \/ ExtractMaxOnEmpty /\ UNCHANGED histVars /\ UNCHANGED mapVars /\ UNCHANGED runVars
    \/ HeapSort /\ UNCHANGED histVars /\ UNCHANGED mapVars /\ UNCHANGED runVars

SpecHeap == InitHeap /\ [][NextHeap]_vars

\* SpecDrain: one build, then extractMax until the heap is empty, with the
\* history of what was built and what was removed
BuildRecorded ==
    /\ hstatus = "ok"
    /\ hop = "new"
    /\ \E arr \in SeqsUpTo(KVNode, MaxLen) :
          /\ BuildFrom(arr)
          /\ built' = BagOf(arr)
    /\ drain' = <<>>

ExtractMaxRecorded ==
    /\ ExtractMax
    /\ drain' = Append(drain, heap[1])
    /\ UNCHANGED built

NextDrain ==
    \/ BuildRecorded /\ UNCHANGED mapVars /\ UNCHANGED runVars
    \/ ExtractMaxRecorded /\ UNCHANGED mapVars /\ UNCHANGED runVars

SpecDrain == InitHeap /\ [][NextDrain]_vars

InitMap == MapInit /\ HeapIdle /\ RunIdle

NextMap ==
    \/ \E key \in MKeys, value \in MVals : MapInsert(key, value) /\ UNCHANGED heapVars /\ UNCHANGED runVars
    \/ \E key \in MKeys : MapErase(key) /\ UNCHANGED heapVars /\ UNCHANGED runVars
    \/ \E key \in MKeys : MapFind(key) /\ UNCHANGED heapVars /\ UNCHANGED runVars
    \/ \E key \in MKeys, write \in MVals \cup {NotFound} : MapIndex(key, write) /\ UNCHANGED heapVars /\ UNCHANGED runVars

SpecMap == InitMap /\ [][NextMap]_vars

(***************************************************************************)
(* Properties of MaxHeap (checked under SpecHeap).                         *)
(***************************************************************************)
\* every non-root slot i (0-based) is not above its parent (i-1) div ar
HeapOrdered(h, ar) ==
    \A i \in 1..(Len(h) - 1) : h[((i - 1) \div ar) + 1].key >= h[i + 1].key

\* C1: for every arity d >= 1, once build, insert or extractMax has returned
\* (each called within its precondition, so the object is still defined),
\* every non-root slot i satisfies key(slot[(i-1) div d]) >= key(slot[i]).
C1_MaxHeapProperty ==
    (hstatus = "ok" /\ hop \in {"build", "insert", "extractMax"}) => HeapOrdered(heap, d)

C1_Witness ==
    /\ hstatus = "ok" /\ hop = "extractMax" /\ d = 2
    /\ Len(heap) >= 3
    /\ heap[1].key > heap[3].key
    /\ HeapOrdered(heap, d)

\* out is a rearrangement of the values of nodes in which the keys that go
\* with them are in non-decreasing order
SortedValuesOf(nodes, out) ==
    /\ Len(out) = Len(nodes)
    /\ \E p \in Permutations(1..Len(nodes)) :
          /\ \A i \in 1..Len(nodes) : out[i] = nodes[p[i]].value
          /\ \A i \in 1..(Len(nodes) - 1) : nodes[p[i]].key <= nodes[p[i + 1]].key

\* C3: heapSort() returns a permutation of the stored entries' values arranged
\* so that the corresponding keys are in non-decreasing order, for every arity
\* d >= 1, the empty and the one-element heap included.
C3_HeapSortSorts ==
    (hstatus = "ok" /\ hop = "heapSort") => SortedValuesOf(heap, sorted)

C3_Witness ==
    /\ hstatus = "ok" /\ hop = "heapSort"
    /\ Len(heap) >= 4
    /\ Cardinality({heap[i].key : i \in DOMAIN heap}) >= 3
    /\ sorted # [i \in 1..Len(heap) |-> heap[i].value]
    /\ SortedValuesOf(heap, sorted)

\* C4: after build of a non-empty sequence, each of the successive extractMax
\* calls returns the value of an entry whose key is the maximum of the keys
\* stored when it was called; the extracted keys are non-increasing, and the
\* extracted entries together with the remaining slots are exactly the entries
\* built (so n calls extract exactly the n entries built).
C4_ExtractMaxOrder ==
    (hstatus = "ok" /\ hop = "extractMax") =>
        /\ drain # <<>>
        /\ ret = <<drain[Len(drain)].value>>
        /\ \A i \in DOMAIN heap : drain[Len(drain)].key >= heap[i].key
        /\ \A i \in 1..(Len(drain) - 1) : drain[i].key >= drain[i + 1].key
        /\ BagOf(drain) (+) BagOf(heap) = built
        /\ (heap = <<>> => Len(drain) = BagCardinality(built))

C4_Witness ==
    /\ hstatus = "ok" /\ hop = "extractMax" /\ d = 2
    /\ heap = <<>>
    /\ Len(drain) >= 4
    /\ BagOf(drain) = built
    /\ drain[1].key > drain[2].key
    /\ drain[2].key > drain[Len(drain)].key

\* C10: extractMax or getMax called on an empty heap ends in an explicit error
\* outcome and the heap stays empty.
C10_EmptyIsChecked ==
    (wasEmpty /\ hop \in {"extractMax", "getMax"}) => (hstatus = "error" /\ heap = <<>>)

(***************************************************************************)
(* Properties of UnorderedMap (checked under SpecMap).                     *)
(***************************************************************************)
Entries == Flatten(buckets, 1)

\* C2: across insert, operator[], erase and find (rehashes included) find(k)
\* returns the value last written for k by insert or through operator[] and
\* not erased since, and not-found for a key never inserted or erased since:
\* the map behaves like the reference key -> value function.
C2_FindMatchesReference ==
    /\ \A k \in MKeys : UnorderedMap_find(buckets, k) = ref[k]
    /\ (mop = "find" => found = ref[findKey])

C2_Witness ==
    /\ mop = "find"
    /\ found = 1
    /\ Len(buckets) >= 4 * initCap
    /\ \E k \in MKeys : ref[k] = NotFound
    /\ \E k \in MKeys : ref[k] = 0

\* C5: once insert or operator[] has returned, the element count is at most
\* bucket capacity x 0.75.
C5_EagerRehash ==
    (mop \in {"insert", "index"}) => (4 * numElements <= 3 * Len(buckets))

\* C6: from an empty map of capacity C, once exactly C x 0.75 + 1 distinct keys
\* have been inserted the capacity is 2C.
C6_OneDoubling ==
    (onlyFresh /\ initCap % 4 = 0 /\ numElements = (3 * initCap) \div 4 + 1)
        => (Len(buckets) = 2 * initCap)

\* C7: numElements equals the number of entries stored across all buckets,
\* which equals the number of distinct keys inserted and not erased since; so
\* an insert of a present key leaves the counter as it was.
C7_CountMatchesEntries ==
    /\ numElements = Len(Entries)
    /\ numElements = Cardinality({k \in MKeys : ref[k] # NotFound})

C7_Witness ==
    /\ mop = "insert" /\ hit
    /\ numElements >= 2
    /\ Len(buckets) > initCap
    /\ \E k \in MKeys : ref[k] = NotFound

\* C8: no key occurs in more than one entry across all buckets.
C8_UniqueKeys ==
    \A i, j \in 1..Len(Entries) : Entries[i].key = Entries[j].key => i = j

C8_Witness ==
    /\ mop \in {"insert", "index"} /\ hit
    /\ Len(buckets) > initCap
    /\ \E i \in 1..Len(buckets) : Len(buckets[i]) >= 2

\* C9: once insert, operator[] or erase has returned, each stored entry lies in
\* the bucket whose index is hash(key) mod the current capacity; an entry added
\* by a call that also rehashed is placed by the capacity after the resize.
C9_BucketMatchesHash ==
    \A i \in 1..Len(buckets) : \A p \in 1..Len(buckets[i]) :
        HashMod(buckets[i][p].key, Len(buckets)) = i - 1

\* operator[] added a key while rehashing, and the entry at the back of some
\* chain would sit elsewhere under the capacity before the resize
C9_Witness ==
    /\ mop = "index" /\ grew /\ ~hit
    /\ \E i \in 1..Len(buckets) :
          /\ buckets[i] # <<>>
          /\ HashMod(buckets[i][Len(buckets[i])].key, Len(buckets) \div 2) # i - 1

(***************************************************************************)
(* The sifts one activation at a time (SpecSift): hDown, hUp and heapify   *)
(* are recursive, each activation either returns or makes one recursive    *)
(* call.  The sifts compare keys only, so the entries carry one value.     *)
(***************************************************************************)
\* an activation limit well above any recursion depth of a terminating sift
MaxCalls == 2 * MaxLen + 2

SiftNodes  == {[key |-> k, value |-> 1] : k \in Keys}
SiftArrays == SeqsUpTo(SiftNodes, MaxLen)

\* hDown whose recursive call is outside the if (missing braces)
hDownCall_noBraces(h, ind, ar) ==
    LET maxIdx == ChildLoop(h, Len(h), ar, ind, 1, ind)
    IN  [heap    |-> IF maxIdx # ind THEN swapNodes(h, ind, maxIdx) ELSE h,
         next    |-> maxIdx,
         returns |-> FALSE]

\* one activation of hDown(ind): the slots it leaves, the index of its
\* recursive call, and whether it returns without one
hDownCall(h, ind, ar) ==
    LET maxIdx == ChildLoop(h, Len(h), ar, ind, 1, ind)
    IN  [heap    |-> IF maxIdx # ind THEN swapNodes(h, ind, maxIdx) ELSE h,
         next    |-> maxIdx,
         returns |-> (maxIdx = ind)]

\* one activation of hUp(ind)
hUpCall(h, ind, ar) ==
    IF ind = 0 THEN [heap |-> h, next |-> ind, returns |-> TRUE]
    ELSE LET parent == CDiv(ind - 1, ar)
         IN  IF h[ind + 1].key > h[parent + 1].key
             THEN [heap |-> swapNodes(h, ind, parent), next |-> parent, returns |-> FALSE]
             ELSE [heap |-> h, next |-> ind, returns |-> TRUE]

\* one activation of heapify(arr, i, heapSize)
heapifyCall(arr, i, heapSize, ar) ==
    LET largest == ChildLoop(arr, heapSize, ar, i, 1, i)
    IN  [heap    |-> IF largest # i THEN swapNodes(arr, i, largest) ELSE arr,
         next    |-> largest,
         returns |-> (largest = i)]

\* the calls the code makes: hDown(i) with i < size (or on an empty vector),
\* hUp(size - 1), heapify(arr, i, n) with i < n <= size (or heapify(arr, 0, 0))
SiftStarts(h) ==
    {[mode |-> "hDown", ind |-> i, size |-> Len(h), calls |-> 0, done |-> FALSE] :
        i \in 0..(IF h = <<>> THEN 0 ELSE Len(h) - 1)}
    \cup
    {[mode |-> "hUp", ind |-> i, size |-> Len(h), calls |-> 0, done |-> FALSE] :
        i \in 0..(Len(h) - 1)}
    \cup
    UNION {{[mode |-> "heapify", ind |-> i, size |-> n, calls |-> 0, done |-> FALSE] :
               i \in 0..(IF n = 0 THEN 0 ELSE n - 1)} : n \in 0..Len(h)}

InitSift ==
    /\ heap \in SiftArrays
    /\ d \in Arities
    /\ hstatus = "ok" /\ hop = "new" /\ ret = <<>> /\ sorted = <<>>
    /\ wasEmpty = (heap = <<>>) /\ built = EmptyBag /\ drain = <<>>
    /\ sift \in SiftStarts(heap)
    /\ cmp = <<>>
    /\ pipe = <<>>
    /\ MapIdle

SiftAdvance(r) ==
    /\ heap' = r.heap
    /\ sift' = [sift EXCEPT !.ind = r.next, !.calls = @ + 1, !.done = r.returns]
    /\ UNCHANGED <<d, hstatus, hop, ret, sorted, wasEmpty, built, drain, cmp, pipe>>
    /\ UNCHANGED mapVars

HDownStep ==
    /\ sift.mode = "hDown" /\ ~sift.done /\ sift.calls < MaxCalls
    /\ SiftAdvance(hDownCall(heap, sift.ind, d))

HUpStep ==
    /\ sift.mode = "hUp" /\ ~sift.done /\ sift.calls < MaxCalls
    /\ SiftAdvance(hUpCall(heap, sift.ind, d))

HeapifyStep ==
    /\ sift.mode = "heapify" /\ ~sift.done /\ sift.calls < MaxCalls
    /\ SiftAdvance(heapifyCall(heap, sift.ind, sift.size, d))

NextSift ==
    \/ HDownStep
    \/ HUpStep
    \/ HeapifyStep

\* a sift that has not returned makes its next call: the program is sequential
SpecSift == InitSift /\ [][NextSift]_vars /\ WF_vars(NextSift)

\* C11: for every arity d >= 1 (d = 1 included) every sift-up and sift-down
\* returns; insert, extractMax, build and heapSort are finite loops around them.
C11_SiftsTerminate == <>(sift.done)

C11_Witness ==
    /\ sift.done /\ d = 1
    /\ sift.mode \in {"hDown", "heapify"}
    /\ sift.calls >= 3

(***************************************************************************)
(* build followed by heapSort, on one input under two arities (SpecCmp).   *)
(***************************************************************************)
\* the arities the comparison ranges over: 2, 3, 4, ...
CmpArities == 2..MaxD

\* MaxHeap<K,V> mh(ar); mh.build(arr); mh.heapSort(): the values returned and
\* the keys they were stored with
BuildThenSort(arr, ar) ==
    LET nodes == SortedNodes(MaxHeap_build(arr, ar), ar)
    IN  [values |-> [i \in 1..Len(nodes) |-> nodes[i].value],
         keys   |-> [i \in 1..Len(nodes) |-> nodes[i].key]]

InitCmp ==
    /\ \E arr \in SeqsUpTo(KVNode, MaxLen) : \E d1, d2 \in CmpArities :
          /\ d1 < d2
          /\ cmp = [arr |-> arr, d1 |-> d1, d2 |-> d2, done |-> FALSE,
                    out1 |-> <<>>, out2 |-> <<>>, keys1 |-> <<>>, keys2 |-> <<>>]
    /\ HeapIdle
    /\ MapIdle
    /\ sift = [mode |-> "none", ind |-> 0, size |-> 0, calls |-> 0, done |-> TRUE]
    /\ pipe = <<>>

RunBoth ==
    /\ ~cmp.done
    /\ LET r1 == BuildThenSort(cmp.arr, cmp.d1)
           r2 == BuildThenSort(cmp.arr, cmp.d2)
       IN  cmp' = [cmp EXCEPT !.done = TRUE,
                              !.out1 = r1.values, !.keys1 = r1.keys,
                              !.out2 = r2.values, !.keys2 = r2.keys]
    /\ UNCHANGED <<sift, pipe>>
    /\ UNCHANGED heapVars
    /\ UNCHANGED mapVars

NextCmp == RunBoth

SpecCmp == InitCmp /\ [][NextCmp]_vars

DistinctKeys(arr) == \A i, j \in 1..Len(arr) : arr[i].key = arr[j].key => i = j

\* C12 as stated: for any input and any two arities >= 2, build followed by
\* heapSort returns exactly the same sequence under both, also when entries
\* share a key and carry different values.
C12_SameAcrossArities == cmp.done => cmp.out1 = cmp.out2

\* C12 as amended: the keys that go with the returned values are the same
\* sequence under both arities, and the returned sequences are the same
\* whenever no two entries of the input share a key.
C12_SameKeysAcrossArities ==
    cmp.done =>
        /\ cmp.keys1 = cmp.keys2
        /\ (DistinctKeys(cmp.arr) => cmp.out1 = cmp.out2)

C12_Witness ==
    /\ cmp.done
    /\ Len(cmp.arr) >= 3
    /\ DistinctKeys(cmp.arr)
    /\ cmp.out1 = cmp.out2
    /\ cmp.out1 # [i \in 1..Len(cmp.arr) |-> cmp.arr[i].value]

\* C13: heapSort leaves the live heap as it was: the same slots in the same
\* order and the same arity, so that a getMax or extractMax that follows
\* returns and leaves what it would have without the heapSort call.
C13_HeapSortKeepsHeap ==
    [][hop' = "heapSort" =>
          /\ heap' = heap
          /\ d' = d
          /\ (heap # <<>> =>
                /\ MaxHeap_getMax(heap') = MaxHeap_getMax(heap)
                /\ MaxHeap_extractMax(heap', d') = MaxHeap_extractMax(heap, d))]_vars

C13_Witness ==
    /\ hop = "heapSort"
    /\ Len(heap) >= 3
    /\ sorted # <<>>
    /\ sorted # [i \in 1..Len(heap) |-> heap[i].value]

\* the map holds an entry for key, in whatever bucket
Present(b, key) == \E j \in 1..Len(b) : \E p \in 1..Len(b[j]) : b[j][p].key = key

\* C14: erase(key) returns true exactly when key was present; then the entry
\* of key is gone, the count is one less and every other entry is still there
\* with its value; when it returns false the buckets and the count are as
\* before.  The number of buckets is the same after the call in both cases.
C14_EraseRemovesOne ==
    \A key \in MKeys :
       LET r    == UnorderedMap_erase(buckets, numElements, key)
           was  == Present(buckets, key)
       IN  /\ r.result = was
           /\ Len(r.buckets) = Len(buckets)
           /\ was =>
                 /\ ~Present(r.buckets, key)
                 /\ r.numElements = numElements - 1
                 /\ Flatten(r.buckets, 1) =
                       SelectSeq(Flatten(buckets, 1), LAMBDA node : node.key # key)
           /\ ~was =>
                 /\ r.buckets = buckets
                 /\ r.numElements = numElements

C14_Witness ==
    /\ mop = "erase"
    /\ found = TRUE
    /\ numElements >= 2
    /\ Len(buckets) > initCap

\* operator[] on an absent key: one entry more, holding V() = 0, nothing else touched
AddsDefaultEntry(b, n, key) ==
    LET r == UnorderedMap_index(b, n, key)
    IN  /\ r.numElements = n + 1
        /\ UnorderedMap_find(r.buckets, key) = 0
        /\ Len(Flatten(r.buckets, 1)) = Len(Flatten(b, 1)) + 1
        /\ \A k \in MKeys \ {key} : UnorderedMap_find(r.buckets, k) = UnorderedMap_find(b, k)

\* C15: operator[](key) applies the growth policy of insert: in every
\* reachable state and for every key, present or absent, the number of
\* buckets after operator[](key) is the number insert(key, v) would leave,
\* and for an absent key operator[] adds exactly one entry with the default
\* value.
C15_SameGrowthAsInsert ==
    \A key \in MKeys :
       /\ Len(UnorderedMap_index(buckets, numElements, key).buckets)
             = Len(UnorderedMap_insert(buckets, numElements, key, 0).buckets)
       /\ ~Present(buckets, key) => AddsDefaultEntry(buckets, numElements, key)

\* for absent keys the two calls do leave the same number of buckets
IndexGrowsAsInsertWhenAbsent ==
    \A key \in MKeys :
       ~Present(buckets, key) =>
          /\ Len(UnorderedMap_index(buckets, numElements, key).buckets)
                = Len(UnorderedMap_insert(buckets, numElements, key, 0).buckets)
          /\ AddsDefaultEntry(buckets, numElements, key)

(***************************************************************************)
(* main of Sorting_by_frequency.cpp (SpecPipe): count with operator[],     *)
(* getEntries, swap key and value, build, heapSort.  pipe.freq counts what *)
(* has been read.                                                         *)
(***************************************************************************)
MaxInput == 6

\* the numbers main may read: the small keys and, for each, the number that
\* shares its bucket in the 16 buckets of the default constructor
PipeVals == MKeys \cup {x + DefaultBuckets : x \in MKeys}

\* the entries handed to the heap as they come out of the map
SwapKeyValue_none(entries) == entries

\* for (i...) swap(entries[i].key, entries[i].value);
SwapKeyValue(entries) ==
    [i \in 1..Len(entries) |-> [key |-> entries[i].value, value |-> entries[i].key]]

InitPipe ==
    /\ pipe = [stage |-> "read", n |-> 0, freq |-> [x \in PipeVals |-> 0]]
    /\ MapIdle
    /\ HeapIdle
    /\ sift = [mode |-> "none", ind |-> 0, size |-> 0, calls |-> 0, done |-> TRUE]
    /\ cmp = <<>>

\* cin >> in[i]; mp[in[i]]++;
PipeRead(x) ==
    /\ pipe.stage = "read"
    /\ pipe.n < MaxInput
    /\ LET r == UnorderedMap_index(buckets, numElements, x)
       IN  /\ buckets' = [r.buckets EXCEPT ![r.bucket][r.pos].value = @ + 1]
           /\ numElements' = r.numElements
    /\ pipe' = [pipe EXCEPT !.n = @ + 1, !.freq[x] = @ + 1]
    /\ UNCHANGED <<mop, findKey, ref, found, hit, grew, initCap, onlyFresh>>
    /\ UNCHANGED heapVars
    /\ UNCHANGED <<sift, cmp>>

\* entries = mp.getEntries(); swap; MaxHeap<int,int> mh; mh.build(entries);
\* sorted = mh.heapSort(); print
PipeSort ==
    /\ pipe.stage = "read"
    /\ LET entries == SwapKeyValue(UnorderedMap_getEntries(buckets))
           h       == MaxHeap_build(entries, d)
       IN  /\ heap' = h
           /\ sorted' = MaxHeap_heapSort(h, d)
           /\ wasEmpty' = (h = <<>>)
    /\ hop' = "heapSort"
    /\ pipe' = [pipe EXCEPT !.stage = "done"]
    /\ UNCHANGED <<d, hstatus, ret, built, drain>>
    /\ UNCHANGED mapVars
    /\ UNCHANGED <<sift, cmp>>

NextPipe ==
    \/ \E x \in PipeVals : PipeRead(x)
    \/ PipeSort

SpecPipe == InitPipe /\ [][NextPipe]_vars

\* C16: for any input list the pipeline prints each distinct input value
\* exactly once, and the frequencies of successive printed values never
\* decrease.
C16_AscendingFrequency ==
    pipe.stage = "done" =>
        /\ \A i \in 1..Len(sorted) : sorted[i] \in PipeVals /\ pipe.freq[sorted[i]] > 0
        /\ \A x \in PipeVals :
              pipe.freq[x] > 0 => Cardinality({i \in 1..Len(sorted) : sorted[i] = x}) = 1
        /\ \A i, j \in 1..Len(sorted) :
              i < j => pipe.freq[sorted[i]] <= pipe.freq[sorted[j]]

C16_Witness ==
    /\ pipe.stage = "done"
    /\ Len(sorted) = 3
    /\ pipe.freq[sorted[1]] = 1
    /\ pipe.freq[sorted[2]] = 2
    /\ pipe.freq[sorted[3]] = 3
    /\ sorted[1] = sorted[3] + DefaultBuckets

\* the slots a sift-down step at node ind looks at: d*ind + 1 .. d*ind + d,
\* as far as they exist below size
ChildrenOf(ind, size, ar) == {c \in (ar * ind + 1)..(ar * ind + ar) : c < size}

SiftDownSize == IF sift.mode = "hDown" THEN Len(heap) ELSE sift.size

\* C17: in every sift-down step (hDown and heapify) at node i a swap happens
\* only if some existing child has a key strictly greater than key(i); the
\* child swapped with is the lowest-indexed one among the children holding
\* the greatest key; the sift stops when no child exceeds the node or the
\* node has no children.
C17_SiftDownStep ==
    [][(HDownStep \/ HeapifyStep) =>
          LET i        == sift.ind
              children == ChildrenOf(i, SiftDownSize, d)
              exceeds  == \E c \in children : heap[c + 1].key > heap[i + 1].key
              m        == sift'.ind
          IN  /\ sift'.done = ~exceeds
              /\ ~exceeds => (heap' = heap /\ m = i)
              /\ exceeds =>
                    /\ m \in children
                    /\ \A c \in children : heap[c + 1].key <= heap[m + 1].key
                    /\ \A c \in children : c < m => heap[c + 1].key < heap[m + 1].key
                    /\ heap' = swapNodes(heap, i, m)]_vars

\* a step that swapped with a child whose key a later sibling also holds
C17_Witness ==
    /\ sift.mode \in {"hDown", "heapify"}
    /\ sift.calls >= 1
    /\ ~sift.done
    /\ \E c \in 0..(Len(heap) - 1) :
          /\ c > sift.ind
          /\ CDiv(c - 1, d) = CDiv(sift.ind - 1, d)
          /\ heap[c + 1].key = heap[CDiv(sift.ind - 1, d) + 1].key

(***************************************************************************)
(* SpecBag: the calls of SpecHeap made within their preconditions, with    *)
(* built keeping the entries handed to the heap and not yet taken out.     *)
(***************************************************************************)
BuildCounted ==
    /\ hstatus = "ok"
    /\ hop = "new"
    /\ \E arr \in SeqsUpTo(KVNode, MaxLen) :
          /\ BuildFrom(arr)
          /\ built' = BagOf(arr)
    /\ UNCHANGED drain

InsertCounted(value) ==
    /\ Insert(value)
    /\ built' = built (+) SetToBag({value})
    /\ UNCHANGED drain

ExtractMaxCounted ==
    /\ ExtractMax
    /\ built' = built (-) SetToBag({heap[1]})
    /\ UNCHANGED drain

NextBag ==
    \/ BuildCounted /\ UNCHANGED mapVars /\ UNCHANGED runVars
    \/ \E value \in KVNode : InsertCounted(value) /\ UNCHANGED mapVars /\ UNCHANGED runVars
    \/ ExtractMaxCounted /\ UNCHANGED mapVars /\ UNCHANGED runVars
    \/ GetMax /\ UNCHANGED histVars /\ UNCHANGED mapVars /\ UNCHANGED runVars
    \/ HeapSort /\ UNCHANGED histVars /\ UNCHANGED mapVars /\ UNCHANGED runVars

SpecBag == InitHeap /\ [][NextBag]_vars

\* C18: heap operations only add, remove or permute entries: after any
\* sequence of operations the multiset of the slots is the entries of the
\* last build plus those inserted since, minus one root entry per extractMax
\* on a non-empty heap; insert makes the slot count one more and extractMax
\* one less.
C18_EntriesConserved ==
    [][hstatus' = "ok" =>
          /\ BagOf(heap') = built'
          /\ Len(heap') = BagCardinality(built')
          /\ hop' = "insert" => Len(heap') = Len(heap) + 1
          /\ hop' = "extractMax" =>
                /\ Len(heap') = Len(heap) - 1
                /\ BagOf(heap') (+) SetToBag({heap[1]}) = BagOf(heap)]_vars

C18_Witness ==
    /\ hstatus = "ok"
    /\ hop = "extractMax"
    /\ Len(heap) = MaxLen - 1
    /\ BagOf(heap) = built
    /\ \E i, j \in DOMAIN heap : i < j /\ heap[i] = heap[j]

\* C19: build on an empty sequence, for every arity d >= 1, makes no
\* sift-down call and leaves the heap empty: the start index, (size - 1) / d
\* in unsigned 64-bit arithmetic narrowed to a 32-bit int, is negative for
\* n = 0, and no d*ind + i leaves the int range.
C19_EmptyBuildIsIdle ==
    (hop = "build" /\ heap = <<>>) =>
        /\ BuildStart(0, d) < 0
        /\ ~ChildOverflows(BuildStart(0, d), d)
        /\ hstatus = "ok"

====
